---- MODULE Spec2Model ----
(***************************************************************************)
(* Model of dashboard.py: the two data files, the cached                   *)
(* load_and_preprocess_data pipeline (sentiment normalisation, trade       *)
(* normalisation with the IST -> UTC conversion, daily aggregation, inner  *)
(* join and sort) and the script run that renders the page from it.        *)
(*                                                                         *)
(* Numbers are integers (amounts in whole units); a ratio is the pair      *)
(* <<numerator, denominator>>.  A CSV cell is <<>> when it is empty (NaN)  *)
(* and <<v>> when it holds v.  A text is a sequence of one-character       *)
(* strings.  A calendar date is <<year, month, day>>, NaT is <<>>.         *)
(***************************************************************************)
EXTENDS Integers, Sequences, FiniteSets, TLC

\* ---------------------------------------------------------------- bounds
MaxTrades == 2
MaxSent == 2
\* rows in the two files together
MaxRows == 4

\* ----------------------------------------------------------------- cells
NA == <<>>
IsNA(c) == c = <<>>
Cell(v) == <<v>>
Val(c) == c[1]
NaT == <<>>

\* -------------------------------------------------------------- calendar
IsLeap(y) == (y % 4 = 0 /\ y % 100 # 0) \/ y % 400 = 0

DaysInMonth(y, m) ==
  IF m = 2 THEN (IF IsLeap(y) THEN 29 ELSE 28)
  ELSE IF m \in {4, 6, 9, 11} THEN 30 ELSE 31

\* days since 1970-01-01 of the proleptic Gregorian date y-m-d
DaysFromCivil(y, m, d) ==
  LET yy  == IF m <= 2 THEN y - 1 ELSE y
      era == yy \div 400
      yoe == yy - era * 400
      mp  == (m + 9) % 12
      doy == (153 * mp + 2) \div 5 + d - 1
      doe == yoe * 365 + yoe \div 4 - yoe \div 100 + doy
  IN  era * 146097 + doe - 719468

\* the date <<y, m, d>> that lies z days after 1970-01-01
CivilFromDays(z) ==
  LET zz  == z + 719468
      era == zz \div 146097
      doe == zz - era * 146097
      yoe == (doe - doe \div 1460 + doe \div 36524 - doe \div 146096) \div 365
      doy == doe - (365 * yoe + yoe \div 4 - yoe \div 100)
      mp  == (5 * doy + 2) \div 153
      d   == doy - (153 * mp + 2) \div 5 + 1
      m   == IF mp < 10 THEN mp + 3 ELSE mp - 9
      y   == yoe + era * 400 + (IF m <= 2 THEN 1 ELSE 0)
  IN  <<y, m, d>>

DateLess(a, b) ==
  \/ a[1] < b[1]
  \/ a[1] = b[1] /\ a[2] < b[2]
  \/ a[1] = b[1] /\ a[2] = b[2] /\ a[3] < b[3]

\* ------------------------------------------------------------------ text
UpperAlpha == <<"A","B","C","D","E","F","G","H","I","J","K","L","M",
                "N","O","P","Q","R","S","T","U","V","W","X","Y","Z">>
LowerAlpha == <<"a","b","c","d","e","f","g","h","i","j","k","l","m",
                "n","o","p","q","r","s","t","u","v","w","x","y","z">>

ToLower ==
  [c \in {UpperAlpha[i] : i \in 1..26} |->
     LowerAlpha[CHOOSE i \in 1..26 : UpperAlpha[i] = c]]

LowerChar(c) == IF c \in DOMAIN ToLower THEN ToLower[c] ELSE c

\* str.lower()
Lower(s) == [i \in 1..Len(s) |-> LowerChar(s[i])]

\* the Python test `sub in s`
Contains(s, sub) ==
  \E i \in 0..(Len(s) - Len(sub)) :
    \A j \in 1..Len(sub) : s[i + j] = sub[j]

\* str(x) of a classification cell: an empty cell is the float NaN
Str(c) == IF IsNA(c) THEN <<"n","a","n">> ELSE Val(c)


\* ------------------------------------------------------ sequence helpers
\* the rows of s at the indices in K, in order
SelectAt(s, K) ==
  LET F[i \in 0..Len(s)] ==
        IF i = 0 THEN <<>>
        ELSE IF i \in K THEN Append(F[i - 1], s[i]) ELSE F[i - 1]
  IN  F[Len(s)]

\* sum of a column of numbers
SumSeq(col) ==
  LET F[i \in 0..Len(col)] == IF i = 0 THEN 0 ELSE F[i - 1] + col[i]
  IN  F[Len(col)]

\* `sum` of a column of flags
CountTrue(col) == Cardinality({i \in 1..Len(col) : col[i]})

RECURSIVE SortDates(_)
SortDates(S) ==
  IF S = {} THEN <<>>
  ELSE LET m == CHOOSE x \in S : \A y \in S : x = y \/ DateLess(x, y)
       IN  <<m>> \o SortDates(S \ {m})

\* ------------------------------------------------- 1. process fear/greed
\* the raw `date` cell holds <<year, month, day>> as written in the file
ValidDate(y, m, d) == m \in 1..12 /\ d \in 1..DaysInMonth(y, m)

DateParses(c) == IsNA(c) \/ ValidDate(Val(c)[1], Val(c)[2], Val(c)[3])

\* pd.to_datetime(df_fg['date']).dt.date of one cell
ToDate(c) ==
  IF IsNA(c) THEN NaT
  ELSE CivilFromDays(DaysFromCivil(Val(c)[1], Val(c)[2], Val(c)[3]))

DropDuplicatesLast(df) ==
  SelectAt(df, {i \in 1..Len(df) : ~ \E j \in (i + 1)..Len(df) : df[j].Date = df[i].Date})

\* df_fg.drop_duplicates(subset=['Date']), keep='first'
DropDuplicates(df) ==
  SelectAt(df, {i \in 1..Len(df) : ~ \E j \in 1..(i - 1) : df[j].Date = df[i].Date})

categorize_regime_greed_first(x) ==
  LET val == Lower(Str(x))
  IN  IF Contains(val, <<"g","r","e","e","d">>) THEN "Greed"
      ELSE IF Contains(val, <<"f","e","a","r">>) THEN "Fear"
      ELSE "Neutral"

categorize_regime(x) ==
  LET val == Lower(Str(x))
  IN  IF Contains(val, <<"f","e","a","r">>) THEN "Fear"
      ELSE IF Contains(val, <<"g","r","e","e","d">>) THEN "Greed"
      ELSE "Neutral"

ProcessFearGreed(fg) ==
  LET dated == [i \in 1..Len(fg) |->
                  [date |-> fg[i].date, value |-> fg[i].value,
                   classification |-> fg[i].classification,
                   Date |-> ToDate(fg[i].date)]]
      dedup == DropDuplicates(dated)
  IN  [i \in 1..Len(dedup) |->
         [date |-> dedup[i].date, value |-> dedup[i].value,
          classification |-> dedup[i].classification,
          Date |-> dedup[i].Date,
          Regime |-> categorize_regime(dedup[i].classification)]]

\* ----------------------------------------------------- 2. process traders
KolkataOffsetMin == 330

\* the raw `Timestamp IST` cell holds <<day, month, year, hour, minute>>
TimestampParses(c) ==
  \/ IsNA(c)
  \/ /\ ValidDate(Val(c)[3], Val(c)[2], Val(c)[1])
     /\ Val(c)[4] \in 0..23
     /\ Val(c)[5] \in 0..59

\* pd.to_datetime(..., format='%d-%m-%Y %H:%M'): naive minutes since epoch
ToDatetime(c) ==
  IF IsNA(c) THEN NaT
  ELSE Cell(DaysFromCivil(Val(c)[3], Val(c)[2], Val(c)[1]) * 1440
            + Val(c)[4] * 60 + Val(c)[5])

TimestampUTCNaive(dt) == dt

\* .dt.tz_localize('Asia/Kolkata').dt.tz_convert('UTC'): minutes since the
\* epoch of the instant whose Kolkata wall clock reads dt
TimestampUTC(dt) ==
  IF IsNA(dt) THEN NaT ELSE Cell(Val(dt) - KolkataOffsetMin)

\* .dt.date of a UTC timestamp
DtDate(ts) == IF IsNA(ts) THEN NaT ELSE CivilFromDays(Val(ts) \div 1440)

NetPnL(closed, fee) ==
  IF IsNA(closed) \/ IsNA(fee) THEN NA ELSE Cell(Val(closed) - Val(fee))

ProcessTraders(hd) ==
  [i \in 1..Len(hd) |->
     LET utc == TimestampUTC(ToDatetime(hd[i].Timestamp_IST))
         net == NetPnL(hd[i].Closed_PnL, hd[i].Fee)
     IN  [Account |-> hd[i].Account,
          Timestamp_IST |-> hd[i].Timestamp_IST,
          Closed_PnL |-> hd[i].Closed_PnL,
          Fee |-> hd[i].Fee,
          Size_USD |-> hd[i].Size_USD,
          Crossed |-> hd[i].Crossed,
          Timestamp_UTC |-> utc,
          Date |-> DtDate(utc),
          Net_PnL |-> net,
          Is_Win |-> ~IsNA(net) /\ Val(net) > 0,
          Is_Loss |-> ~IsNA(net) /\ Val(net) < 0,
          Is_Taker |-> hd[i].Crossed = Cell(TRUE)]]

\* ------------------------------------------------ 3. aggregate daily stats
\* `count`: the non-null cells of a column
CountNonNull(col) == Cardinality({i \in 1..Len(col) : ~IsNA(col[i])})

\* `nunique`: the distinct non-null values of a column
NUnique(col) ==
  Cardinality({col[i] : i \in {k \in 1..Len(col) : ~IsNA(col[k])}})

\* `sum` of a numeric column, NaN skipped
SumSkipNA(col) ==
  SumSeq([i \in 1..Len(col) |-> IF IsNA(col[i]) THEN 0 ELSE Val(col[i])])

\* `mean` of a numeric column, NaN skipped; NaN when nothing is left
MeanSkipNA(col) ==
  IF CountNonNull(col) = 0 THEN NA
  ELSE Cell(<<SumSkipNA(col), CountNonNull(col)>>)

\* Series.replace(0, 1) of one entry
Replace01(n) == IF n = 0 THEN 1 ELSE n

WinRateUnguarded(w, l) == <<w, w + l>>

WinRate(w, l) == <<w, Replace01(w + l)>>

TakerRatio(t, n) == <<t, Replace01(n)>>

\* one row of df_hd.groupby('Date').agg(...) with the two derived ratios
DailyStatsRow(d, g) ==
  LET rows == 1..Len(g)
      w == CountTrue([i \in rows |-> g[i].Is_Win])
      l == CountTrue([i \in rows |-> g[i].Is_Loss])
      t == CountTrue([i \in rows |-> g[i].Is_Taker])
      n == CountNonNull([i \in rows |-> g[i].Account])
  IN  [Date |-> d,
       Daily_Total_Net_PnL |-> SumSkipNA([i \in rows |-> g[i].Net_PnL]),
       Avg_Trade_Size |-> MeanSkipNA([i \in rows |-> g[i].Size_USD]),
       Total_Trades |-> n,
       Unique_Accounts |-> NUnique([i \in rows |-> g[i].Account]),
       Winning_Trades |-> w,
       Losing_Trades |-> l,
       Taker_Trades |-> t,
       Win_Rate |-> WinRate(w, l),
       Taker_Ratio |-> TakerRatio(t, n)]

\* groupby('Date'): one group per distinct non-null key, keys ascending
DailyStats(df) ==
  LET keys == SortDates({df[i].Date : i \in {k \in 1..Len(df) : ~IsNA(df[k].Date)}})
  IN  [k \in 1..Len(keys) |->
         DailyStatsRow(keys[k],
                       SelectAt(df, {i \in 1..Len(df) : df[i].Date = keys[k]}))]

\* ------------------------------------------------------------- the merge
Joined(l, r) ==
  [Date |-> l.Date,
   Daily_Total_Net_PnL |-> l.Daily_Total_Net_PnL,
   Avg_Trade_Size |-> l.Avg_Trade_Size,
   Total_Trades |-> l.Total_Trades,
   Unique_Accounts |-> l.Unique_Accounts,
   Winning_Trades |-> l.Winning_Trades,
   Losing_Trades |-> l.Losing_Trades,
   Taker_Trades |-> l.Taker_Trades,
   Win_Rate |-> l.Win_Rate,
   Taker_Ratio |-> l.Taker_Ratio,
   value |-> r.value,
   classification |-> r.classification,
   Regime |-> r.Regime]

NullRight == [value |-> NA, classification |-> NA, Regime |-> "NaN"]

\* the rows of right matching one left row, joined, in right order
Matches(l, right) ==
  LET hit == SelectAt(right, {j \in 1..Len(right) : right[j].Date = l.Date})
  IN  [j \in 1..Len(hit) |-> Joined(l, hit[j])]

MergeLeft(left, right) ==
  LET F[i \in 0..Len(left)] ==
        IF i = 0 THEN <<>>
        ELSE F[i - 1] \o (IF Matches(left[i], right) = <<>>
                          THEN <<Joined(left[i], NullRight)>>
                          ELSE Matches(left[i], right))
  IN  F[Len(left)]

\* pd.merge(left, right, on='Date', how='inner'): left key order kept
MergeInner(left, right) ==
  LET F[i \in 0..Len(left)] ==
        IF i = 0 THEN <<>> ELSE F[i - 1] \o Matches(left[i], right)
  IN  F[Len(left)]

\* insert row r in front of the first row of the sorted df dated after it
InsertByDate(df, r) ==
  LET pos == Cardinality({i \in 1..Len(df) : ~DateLess(r.Date, df[i].Date)})
  IN  SubSeq(df, 1, pos) \o <<r>> \o SubSeq(df, pos + 1, Len(df))

SortValuesDescending(df) ==
  LET F[i \in 0..Len(df)] ==
        IF i = 0 THEN <<>>
        ELSE LET pos == Cardinality({k \in 1..Len(F[i - 1]) :
                                       ~DateLess(F[i - 1][k].Date, df[i].Date)})
             IN  SubSeq(F[i - 1], 1, pos) \o <<df[i]>>
                   \o SubSeq(F[i - 1], pos + 1, Len(F[i - 1]))
  IN  F[Len(df)]

\* merged.sort_values('Date')
SortValues(df) ==
  LET F[i \in 0..Len(df)] ==
        IF i = 0 THEN <<>> ELSE InsertByDate(F[i - 1], df[i])
  IN  F[Len(df)]

\* ------------------------------------------------ load_and_preprocess_data
\* what the call produces: the two returned frames, or the exception raised
Failure(msg) == [ok |-> FALSE, error |-> msg, merged |-> <<>>, df_hd |-> <<>>]

load_and_preprocess_data(fg, hd) ==
  IF \E i \in 1..Len(fg) : ~DateParses(fg[i].date)
    THEN Failure("ValueError: date")
  ELSE IF \E i \in 1..Len(hd) : ~TimestampParses(hd[i].Timestamp_IST)
    THEN Failure("ValueError: Timestamp IST")
  ELSE
    LET df_fg == ProcessFearGreed(fg)
        df_hd == ProcessTraders(hd)
        daily_stats == DailyStats(df_hd)
        merged == SortValues(MergeInner(daily_stats, df_fg))
    IN  [ok |-> TRUE, error |-> "", merged |-> merged, df_hd |-> df_hd]

\* ------------------------------------------------------- the script's page
Regimes == {"Fear", "Neutral", "Greed"}

BlankPage ==
  [status |-> "blank", error |-> "", filtered_df |-> <<>>, df_merged |-> <<>>,
   selected_days |-> 0, total_net_pnl |-> 0]

RenderedPage(result, filter) ==
  LET df == SelectSeq(result.merged, LAMBDA r : r.Regime \in filter)
  IN  [status |-> "rendered", error |-> "",
       filtered_df |-> df, df_merged |-> result.merged,
       selected_days |-> Len(df),
       total_net_pnl |-> SumSeq([i \in 1..Len(df) |-> df[i].Daily_Total_Net_PnL])]

PageOfNoStop(result, filter) ==
  IF filter = {}
    THEN [BlankPage EXCEPT !.status = "warning"]
  ELSE [RenderedPage(result, filter) EXCEPT !.error = result.error]

\* what one run of the script leaves on the page, given what the load call
\* gave and the regimes selected in the sidebar
PageOf(result, filter) ==
  IF ~result.ok
    THEN [BlankPage EXCEPT !.status = "error", !.error = result.error]
  ELSE IF filter = {}
    THEN [BlankPage EXCEPT !.status = "warning"]
  ELSE RenderedPage(result, filter)

\* ---------------------------------------------------------------- inputs
ExtremeFear == <<"E","x","t","r","e","m","e"," ","F","e","a","r">>
Greed == <<"G","r","e","e","d">>
Neutral == <<"N","e","u","t","r","a","l">>
GreedAndFear == <<"G","R","E","E","D","/","f","e","a","r">>

SentimentRow(d, v, c) == [date |-> d, value |-> v, classification |-> c]

\* rows a fear_greed_index.csv may hold
SentimentRows ==
  { SentimentRow(Cell(<<2022, 12, 31>>), Cell(20), Cell(ExtremeFear)),
    SentimentRow(Cell(<<2022, 12, 31>>), Cell(75), Cell(Greed)),
    SentimentRow(Cell(<<2023, 1, 1>>), Cell(60), Cell(GreedAndFear)),
    SentimentRow(Cell(<<2023, 1, 1>>), Cell(40), NA),
    SentimentRow(Cell(<<2024, 2, 29>>), Cell(50), Cell(Neutral)),
    SentimentRow(NA, Cell(45), Cell(Greed)),
    SentimentRow(Cell(<<2023, 2, 30>>), Cell(55), Cell(Greed)) }

TradeRow(a, ts, closed, fee, size, crossed) ==
  [Account |-> a, Timestamp_IST |-> ts, Closed_PnL |-> closed, Fee |-> fee,
   Size_USD |-> size, Crossed |-> crossed]

\* rows a historical_data.csv may hold
TradeRows ==
  { TradeRow(Cell("A"), Cell(<<1, 1, 2023, 2, 0>>), Cell(12), Cell(2), Cell(100), Cell(TRUE)),
    TradeRow(Cell("B"), Cell(<<1, 1, 2023, 5, 29>>), Cell(-3), Cell(1), Cell(50), Cell(FALSE)),
    TradeRow(Cell("A"), Cell(<<1, 1, 2023, 5, 30>>), Cell(1), Cell(1), Cell(100), Cell(TRUE)),
    TradeRow(NA, Cell(<<1, 1, 2023, 5, 30>>), Cell(12), Cell(2), Cell(100), Cell(TRUE)),
    TradeRow(Cell("A"), Cell(<<1, 3, 2024, 4, 0>>), Cell(12), Cell(2), Cell(100), Cell(FALSE)),
    TradeRow(Cell("B"), NA, Cell(12), Cell(2), Cell(100), Cell(TRUE)),
    TradeRow(Cell("A"), Cell(<<31, 2, 2023, 10, 0>>), Cell(12), Cell(2), Cell(100), Cell(TRUE)),
    TradeRow(Cell("A"), Cell(<<1, 1, 2023, 5, 30>>), NA, Cell(2), NA, Cell(FALSE)) }

\* selections the sidebar multiselect is put to
FilterChoices == {Regimes, {"Fear"}, {}}

\* ----------------------------------------------------------------- state
VARIABLES fg_csv, hd_csv, session, cache, regime_filter, page

vars == <<fg_csv, hd_csv, session, cache, regime_filter, page>>

Init ==
  /\ fg_csv = <<>>
  /\ hd_csv = <<>>
  /\ session = FALSE
  /\ cache = <<>>
  /\ regime_filter = Regimes
  /\ page = BlankPage

\* the data files are prepared before the session starts
WriteSentimentRow(r) ==
  /\ ~session
  /\ Len(fg_csv) < MaxSent
  /\ Len(fg_csv) + Len(hd_csv) < MaxRows
  /\ fg_csv' = Append(fg_csv, r)
  /\ UNCHANGED <<hd_csv, session, cache, regime_filter, page>>

WriteTradeRow(r) ==
  /\ ~session
  /\ Len(hd_csv) < MaxTrades
  /\ Len(fg_csv) + Len(hd_csv) < MaxRows
  /\ hd_csv' = Append(hd_csv, r)
  /\ UNCHANGED <<fg_csv, session, cache, regime_filter, page>>

\* @st.cache_data: the stored return value, or a call of the function; a
\* call that raises stores nothing, a stored value stays for the session
CachedLoad == IF cache # <<>> THEN cache[1] ELSE load_and_preprocess_data(fg_csv, hd_csv)

\* one top-to-bottom run of the script with the sidebar selection f
RunScript(f) ==
  LET result == CachedLoad
  IN  /\ regime_filter' = f
      /\ cache' = IF result.ok THEN <<result>> ELSE cache
      /\ page' = PageOf(result, f)
      /\ UNCHANGED <<fg_csv, hd_csv>>

OpenSession ==
  /\ ~session
  /\ session' = TRUE
  /\ RunScript(Regimes)

SelectRegimes(f) ==
  /\ session
  /\ f # regime_filter
  /\ UNCHANGED session
  /\ RunScript(f)

Rerun ==
  /\ session
  /\ UNCHANGED session
  /\ RunScript(regime_filter)

Next ==
  \/ \E r \in SentimentRows : WriteSentimentRow(r)
  \/ \E r \in TradeRows : WriteTradeRow(r)
  \/ OpenSession
  \/ \E f \in FilterChoices : SelectRegimes(f)
  \/ Rerun

Spec == Init /\ [][Next]_vars

\* ===================================================== properties checked
\* what the last successful load call returned
Loaded == cache # <<>>
Merged == IF Loaded THEN cache[1].merged ELSE <<>>
DfHd == IF Loaded THEN cache[1].df_hd ELSE <<>>

\* the day before the calendar date dt
PrevDay(dt) ==
  IF dt[3] > 1 THEN <<dt[1], dt[2], dt[3] - 1>>
  ELSE IF dt[2] > 1 THEN <<dt[1], dt[2] - 1, DaysInMonth(dt[1], dt[2] - 1)>>
  ELSE <<dt[1] - 1, 12, 31>>

\* the calendar date written in a `Timestamp IST` cell
LocalDate(c) == <<Val(c)[3], Val(c)[2], Val(c)[1]>>

BeforeHalfPastFive(c) == Val(c)[4] < 5 \/ (Val(c)[4] = 5 /\ Val(c)[5] < 30)

\* the calendar date of (local timestamp - 5 h 30 min)
BucketDate(c) ==
  IF IsNA(c) THEN NaT
  ELSE IF BeforeHalfPastFive(c) THEN PrevDay(LocalDate(c)) ELSE LocalDate(c)

\* indices of the trades of the file whose UTC date is d
TradesOn(d) == {i \in 1..Len(hd_csv) : BucketDate(hd_csv[i].Timestamp_IST) = d}

\* indices of the sentiment records of the file dated d
SentimentOn(d) == {i \in 1..Len(fg_csv) : fg_csv[i].date = Cell(d)}

RowDates == {Merged[i].Date : i \in 1..Len(Merged)}

\* every calendar date either file mentions, and every date of the table
MentionedDates ==
  {BucketDate(hd_csv[i].Timestamp_IST) : i \in 1..Len(hd_csv)}
    \cup {LocalDate(hd_csv[i].Timestamp_IST) :
            i \in {k \in 1..Len(hd_csv) : ~IsNA(hd_csv[k].Timestamp_IST)}}
    \cup {Val(fg_csv[i].date) : i \in {k \in 1..Len(fg_csv) : ~IsNA(fg_csv[k].date)}}
    \cup RowDates

\* C1: the table has a row for date d iff at least one trade has UTC date d
\* and at least one sentiment record has date d; no row is dated NaT and no
\* row lacks its sentiment columns.
C1_JoinCorrectness ==
  Loaded =>
    /\ \A d \in MentionedDates \ {NaT} :
         (d \in RowDates) <=> (TradesOn(d) # {} /\ SentimentOn(d) # {})
    /\ \A i \in 1..Len(Merged) :
         /\ Merged[i].Date # NaT
         /\ Merged[i].Regime \in Regimes

\* a load where one date has trades only, one has sentiment only, one both
C1_Witness ==
  /\ Loaded
  /\ Len(Merged) = 1
  /\ \E d \in MentionedDates \ {NaT} : TradesOn(d) # {} /\ SentimentOn(d) = {}
  /\ \E d \in MentionedDates \ {NaT} : TradesOn(d) = {} /\ SentimentOn(d) # {}

\* C2: every trade is dated with the calendar date of its local timestamp
\* minus 5 h 30 min; a trade before 05:30 local falls on the previous day,
\* and local 01-01-2023 02:00 falls on 2022-12-31.
C2_TimezoneBucketing ==
  Loaded =>
    \A i \in 1..Len(DfHd) :
      LET ts == DfHd[i].Timestamp_IST
      IN  /\ DfHd[i].Date = BucketDate(ts)
          /\ (~IsNA(ts) /\ BeforeHalfPastFive(ts)) =>
               /\ DfHd[i].Date # LocalDate(ts)
               /\ DfHd[i].Date = PrevDay(LocalDate(ts))
          /\ ts = Cell(<<1, 1, 2023, 2, 0>>) => DfHd[i].Date = <<2022, 12, 31>>

\* the 02:00 trade of new year's day was loaded and its day has a row
C2_Witness ==
  /\ Loaded
  /\ \E i \in 1..Len(DfHd) :
       /\ DfHd[i].Timestamp_IST = Cell(<<1, 1, 2023, 2, 0>>)
       /\ DfHd[i].Date = <<2022, 12, 31>>
       /\ <<2022, 12, 31>> \in RowDates

RatioInUnitInterval(q) == q[2] > 0 /\ 0 <= q[1] /\ q[1] <= q[2]

\* C3: every row of the table has 0 <= Win_Rate <= 1 and
\* 0 <= Taker_Ratio <= 1, rows of trades without Account included.
C3_RatioBounds ==
  \A i \in 1..Len(Merged) :
    /\ RatioInUnitInterval(Merged[i].Win_Rate)
    /\ RatioInUnitInterval(Merged[i].Taker_Ratio)

\* the regime the classification text c stands for
RegimeOfText(c) ==
  LET low == Lower(Str(c))
      fear == Contains(low, <<"f","e","a","r">>)
      greed == Contains(low, <<"g","r","e","e","d">>)
  IN  CHOOSE g \in Regimes :
        /\ fear => g = "Fear"
        /\ (~fear /\ greed) => g = "Greed"
        /\ (~fear /\ ~greed) => g = "Neutral"

\* C4: every row's Regime is Fear, Neutral or Greed and is decided by the
\* row's classification text alone: Fear if the lower-cased text contains
\* "fear", else Greed if it contains "greed", else Neutral.
C4_RegimePartition ==
  /\ \A i \in 1..Len(Merged) :
       /\ Merged[i].Regime \in Regimes
       /\ Merged[i].Regime = RegimeOfText(Merged[i].classification)
  /\ \A i, j \in 1..Len(Merged) :
       Merged[i].classification = Merged[j].classification
         => Merged[i].Regime = Merged[j].Regime

\* a row whose label holds both words is in the table, classified Fear
C4_Witness ==
  \E i \in 1..Len(Merged) :
    /\ Merged[i].classification = Cell(GreedAndFear)
    /\ Merged[i].Regime = "Fear"

\* both files can be parsed: no malformed date, no malformed timestamp
InputsParse ==
  /\ \A i \in 1..Len(fg_csv) : DateParses(fg_csv[i].date)
  /\ \A i \in 1..Len(hd_csv) : TimestampParses(hd_csv[i].Timestamp_IST)

TradeRowDefective(r) ==
  \/ IsNA(r.Timestamp_IST) \/ ~TimestampParses(r.Timestamp_IST)
  \/ IsNA(r.Closed_PnL) \/ IsNA(r.Fee) \/ IsNA(r.Size_USD)

SentimentRowDefective(r) ==
  IsNA(r.date) \/ ~DateParses(r.date) \/ IsNA(r.classification)

\* C6: parsing is strict: when a trade row has an unparseable timestamp or
\* an empty numeric field, or a sentiment row has a malformed or empty date
\* or classification, the load fails and the run ends on the error page.
C6_StrictParsing ==
  (/\ session
   /\ \/ \E i \in 1..Len(hd_csv) : TradeRowDefective(hd_csv[i])
      \/ \E i \in 1..Len(fg_csv) : SentimentRowDefective(fg_csv[i]))
    => (page.status = "error" /\ ~Loaded)

Max(a, b) == IF a >= b THEN a ELSE b

\* the ratio q equals num / den
RatioIs(q, num, den) == q[2] > 0 /\ den > 0 /\ q[1] * den = num * q[2]

\* all trades of UTC date d have net PnL exactly 0
AllNetZero(d) ==
  \A i \in TradesOn(d) :
    /\ ~IsNA(hd_csv[i].Closed_PnL) /\ ~IsNA(hd_csv[i].Fee)
    /\ Val(hd_csv[i].Closed_PnL) - Val(hd_csv[i].Fee) = 0

\* C7: in every row Win_Rate = Winning_Trades / max(1, Winning_Trades +
\* Losing_Trades) and Taker_Ratio = Taker_Trades / max(1, Total_Trades); a
\* date whose trades all have net PnL 0 has Win_Rate 0.
C7_RatioFormulas ==
  \A i \in 1..Len(Merged) :
    LET r == Merged[i]
    IN  /\ RatioIs(r.Win_Rate, r.Winning_Trades,
                   Max(1, r.Winning_Trades + r.Losing_Trades))
        /\ RatioIs(r.Taker_Ratio, r.Taker_Trades, Max(1, r.Total_Trades))
        /\ AllNetZero(r.Date) => RatioIs(r.Win_Rate, 0, 1)

\* the table has the row of a date whose single trade nets to zero
C7_Witness ==
  \E i \in 1..Len(Merged) :
    /\ Cardinality(TradesOn(Merged[i].Date)) = 1
    /\ AllNetZero(Merged[i].Date)
    /\ Merged[i].Winning_Trades + Merged[i].Losing_Trades = 0
    /\ Merged[i].Win_Rate[1] = 0

\* net PnL of trade i of the file, when both of its terms are there
HasNet(i) == ~IsNA(hd_csv[i].Closed_PnL) /\ ~IsNA(hd_csv[i].Fee)
NetOf(i) == Val(hd_csv[i].Closed_PnL) - Val(hd_csv[i].Fee)

RECURSIVE SumOver(_, _)
SumOver(S, f) ==
  IF S = {} THEN 0
  ELSE LET x == CHOOSE y \in S : TRUE IN f[x] + SumOver(S \ {x}, f)

\* C8: the statistics of every date d are the reference aggregation over
\* exactly the trades whose UTC date is d: the sum of closed_pnl - fee, the
\* number of trades, of distinct accounts, of trades with net PnL > 0, with
\* net PnL < 0 and with crossed = true; so wins + losses <= trades, takers
\* <= trades and 1 <= accounts <= trades.
C8_ReferenceAggregation ==
  \A i \in 1..Len(Merged) :
    LET r == Merged[i]
        T == TradesOn(r.Date)
    IN  /\ (\A k \in T : HasNet(k)) =>
              r.Daily_Total_Net_PnL = SumOver(T, [k \in T |-> NetOf(k)])
        /\ r.Total_Trades = Cardinality(T)
        /\ r.Unique_Accounts = Cardinality({hd_csv[k].Account : k \in T})
        /\ r.Winning_Trades = Cardinality({k \in T : HasNet(k) /\ NetOf(k) > 0})
        /\ r.Losing_Trades = Cardinality({k \in T : HasNet(k) /\ NetOf(k) < 0})
        /\ r.Taker_Trades = Cardinality({k \in T : hd_csv[k].Crossed = Cell(TRUE)})
        /\ r.Winning_Trades + r.Losing_Trades <= r.Total_Trades
        /\ r.Taker_Trades <= r.Total_Trades
        /\ 1 <= r.Unique_Accounts /\ r.Unique_Accounts <= r.Total_Trades

\* C9: the table is strictly ascending by date: sorted, and no date twice.
C9_StrictlyAscending ==
  \A i, j \in 1..Len(Merged) :
    i < j => DateLess(Merged[i].Date, Merged[j].Date)

\* two rows came out of trades the file lists latest day first
C9_Witness ==
  /\ Len(Merged) = 2
  /\ Len(hd_csv) >= 2
  /\ DateLess(BucketDate(hd_csv[2].Timestamp_IST),
              BucketDate(hd_csv[1].Timestamp_IST))

\* the first record of the sentiment file dated d
FirstSeen(d) == CHOOSE k \in SentimentOn(d) : \A j \in SentimentOn(d) : k <= j

\* C10: of several sentiment records with the same date the first in file
\* order is kept: the row of that date carries its score, classification
\* and regime.
C10_FirstSeenWins ==
  \A i \in 1..Len(Merged) :
    LET r == Merged[i]
    IN  /\ SentimentOn(r.Date) # {}
        /\ r.value = fg_csv[FirstSeen(r.Date)].value
        /\ r.classification = fg_csv[FirstSeen(r.Date)].classification
        /\ r.Regime = RegimeOfText(fg_csv[FirstSeen(r.Date)].classification)

\* a row whose date has two records that differ in score, label and regime
C10_Witness ==
  \E i \in 1..Len(Merged) :
    \E a, b \in SentimentOn(Merged[i].Date) :
      /\ a < b
      /\ fg_csv[a].value # fg_csv[b].value
      /\ RegimeOfText(fg_csv[a].classification)
           # RegimeOfText(fg_csv[b].classification)
      /\ Merged[i].value = fg_csv[a].value

====
